---- MODULE Spec2Model ----
(***************************************************************************)
(* Data-parallel training driver of ImagenetPytorchHorovod.py: one process *)
(* per replica runs main(); each owns a DistributedSampler, a DataLoader,  *)
(* a model and an SGD optimizer wrapped by Horovod's DistributedOptimizer. *)
(*                                                                         *)
(* The script targets the torch release in which a 0-dim loss is read as   *)
(* loss.data[0]; the library calls it makes (DistributedSampler, SGD,      *)
(* hvd.broadcast_parameters, hvd.DistributedOptimizer) are modelled with   *)
(* the behaviour they have in that release.                                *)
(*                                                                         *)
(* Arithmetic on parameters and gradients is fixed point: integer          *)
(* division truncates where the float operation rounds.                    *)
(***************************************************************************)
EXTENDS Integers, Sequences, FiniteSets, TLC

\* ------------------------------------------------------------------ bounds
MaxReplicas == 2
MaxSamples == 3
MaxBatch == 2
MaxEpochs == 2
MaxRng == 1
\* dataset sizes for one sampler under any order of calls
MaxSamplerSamples == 2
\* dataset and world sizes where the lists of positions themselves are
\* modelled
MaxListSamples == 4
MaxListReplicas == 3
\* batches per epoch where the epochs are long
MaxLogBatches == 101

\* gradient values a backward pass may produce, initial parameter values
Grads == {2, 4}
ParamInits == {0, 1}

\* ------------------------------------------------------- program constants
\* _LR = 0.001, in thousandths: the unit of a parameter is 1/1000 of the
\* unit of a gradient
_LR == 1
\* momentum=0.9 of optim.SGD, as a fraction
MomentumNum == 9
MomentumDen == 10
\* root_rank=0 of hvd.broadcast_parameters
root_rank == 0
\* the period of "if i % 100 == 0"
LogEvery == 100

\* --------------------------------------------------------------- utilities
None == "None"

Min(a, b) == IF a < b THEN a ELSE b

Max(a, b) == IF a < b THEN b ELSE a

\* int(math.ceil(a * 1.0 / b))
Ceil(a, b) == (a + b - 1) \div b

RECURSIVE SumOver(_, _)
SumOver(f, S) ==
  IF S = {} THEN 0
  ELSE LET x == CHOOSE y \in S : TRUE IN f[x] + SumOver(f, S \ {x})

\* Python slice s[lo:hi] of a list (0-based, clipped to the list)
Slice(s, lo, hi) ==
  LET a == Min(Max(lo, 0), Len(s))
      b == Min(Max(hi, 0), Len(s))
  IN IF a >= b THEN << >> ELSE SubSeq(s, a + 1, b)

Range(s) == {s[k] : k \in 1..Len(s)}

\* the permutations of 0..n-1, as lists
Perms(n) == {p \in [1..n -> 0..(n - 1)] : \A a, b \in 1..n : p[a] = p[b] => a = b}

\* _str_to_bool: true when the value contains a 't' in any case
_str_to_bool(in_str) ==
  \E k \in 1..Len(in_str) : in_str[k] \in {"t", "T"}

\* values of the DISTRIBUTED environment variable, as lists of characters;
\* the second is os.getenv's default
EnvValues == {<<"T", "r", "u", "e">>, <<"F", "a", "l", "s", "e">>, <<"1">>}

\* ------------------------------------------------------------------- state
VARIABLES
  DISTRIBUTED,      \* _DISTRIBUTED, read from the environment at import
  size,             \* number of processes of the run (hvd.size())
  total_samples,    \* len(train_dataset)
  batch_size,       \* batch_size of the DataLoader
  total_epochs,     \* number of epochs of the main loop
  randperm_of,      \* torch.randperm under a generator seeded s: s -> list
  torch_rng,        \* per process: state of torch's global generator
  pc,               \* per process: position in main()/train()
  error,            \* per process: the exception that ended main(), if any
  hvd_inited,       \* per process: hvd.init() has returned
  sampler_epoch,    \* per process: train_sampler.epoch
  indices,          \* per process: result of the sampler's last iteration
  epoch,            \* per process: loop variable of the main loop
  i,                \* per process: enumerate index in train()
  param,            \* per process: the model's parameters
  grad,             \* per process: the parameters' .grad
  momentum_buf,     \* per process: SGD's momentum buffer
  hvd_request,      \* per process: tensor submitted to a pending collective
  hvd_response,     \* per process: result of the collective, not yet taken
  hvd_last_inputs,  \* contributions to the collective being delivered
  bcast_calls,      \* per process: broadcast_parameters calls returned
  opt_steps,        \* per process: optimizer.step() calls returned
  seen,             \* per process: epoch -> the outcomes the sampler gave
                    \* at that epoch, and whether it was iterated there
                    \* never, once or more often
  grad_values,      \* the gradients a backward pass gives on the dataset
  batches,          \* per process: the batches the loader has delivered in
                    \* the epoch, each the list of its positions
  batch_grad,       \* per process: gradient of the loss of the batch in hand
  ops,              \* per process: the operations done in the step in hand
  log_lines         \* per process: the training-progress lines logged

vars == <<DISTRIBUTED, size, total_samples, batch_size, total_epochs,
          randperm_of, torch_rng, pc, error, hvd_inited, sampler_epoch, indices,
          epoch, i, param, grad, momentum_buf, hvd_request, hvd_response,
          hvd_last_inputs, bcast_calls, opt_steps, seen, grad_values, batches,
          batch_grad, ops, log_lines>>

config == <<DISTRIBUTED, size, total_samples, batch_size, total_epochs,
            grad_values>>

\* what the loader has delivered and the steps have done and logged
trace == <<batches, batch_grad, ops, log_lines>>

Procs == 0..(size - 1)

Seeds == 0..(MaxEpochs - 1)

Unset == << >>

\* outcome of iterating the sampler: a list, or an AssertionError raised
Returned(list) == [ok |-> TRUE, list |-> list]

AssertionError == [ok |-> FALSE, list |-> << >>]

NoRequest == [op |-> "none", val |-> 0]

\* ------------------------------------------------------ DistributedSampler
\* self.num_samples = int(math.ceil(len(self.dataset) * 1.0 / self.num_replicas))
num_samples(n, num_replicas) == Ceil(n, num_replicas)

\* self.total_size = self.num_samples * self.num_replicas
total_size(n, num_replicas) == num_samples(n, num_replicas) * num_replicas

\* indices += indices[:(self.total_size - len(indices))]
Padded(perm, num_replicas) ==
  perm \o Slice(perm, 0, total_size(Len(perm), num_replicas) - Len(perm))

\* the rank's part cut at offset rank instead of num_samples * rank
Subsample_Overlapping(padded, n, num_replicas, rank) ==
  Slice(padded, rank, rank + num_samples(n, num_replicas))

\* indices = indices[offset:offset + self.num_samples], offset = num_samples * rank
Subsample(padded, n, num_replicas, rank) ==
  LET offset == num_samples(n, num_replicas) * rank
  IN Slice(padded, offset, offset + num_samples(n, num_replicas))

\* DistributedSampler.__iter__ on the permutation drawn for the epoch: the
\* list of this rank, or AssertionError when one of its two asserts fails
SamplerIter(perm, num_replicas, rank) ==
  LET n == Len(perm)
      padded == Padded(perm, num_replicas)
      shard == Subsample(padded, n, num_replicas, rank)
  IN IF Len(padded) # total_size(n, num_replicas) THEN AssertionError
     ELSE IF Len(shard) # num_samples(n, num_replicas) THEN AssertionError
     ELSE Returned(shard)

\* the generator seeded from the global generator's state as well
GeneratorSeed_Global(r) == (sampler_epoch[r] + torch_rng[r]) % MaxEpochs

\* seed given to the generator of an iteration: g.manual_seed(self.epoch)
GeneratorSeed(r) == sampler_epoch[r]

\* len(train_loader): batches of batch_size, the last possibly shorter
NumBatches(shard_len, bs) == Ceil(shard_len, bs)

\* _is_master true of every rank
_is_master_AnyRank(is_distributed, rank) ==
  IF is_distributed THEN (IF rank >= 0 THEN TRUE ELSE FALSE) ELSE TRUE

\* ------------------------------------------------------------- _is_master
_is_master(is_distributed, rank) ==
  IF is_distributed THEN (IF rank = 0 THEN TRUE ELSE FALSE) ELSE TRUE

\* ------------------------------------------------------------------ Horovod
Request(op, val) == [op |-> op, val |-> val]

\* a collective's result delivered to a process, until it takes it
Response(val) == <<val>>

NoResponse == << >>

\* hvd.broadcast: every process receives the root's tensor
BroadcastResult(inputs) == inputs[root_rank]

\* the all-reduce giving the sum, not the average
AllreduceResult_Sum(inputs) == SumOver(inputs, DOMAIN inputs)

\* hvd.allreduce(average=True): the sum over the processes divided by size
AllreduceResult(inputs) == SumOver(inputs, DOMAIN inputs) \div Cardinality(DOMAIN inputs)

\* lr=_LR * hvd.size() of optim.SGD
OptimizerLr(world) == _LR * world

\* buf.mul_(momentum).add_(d_p), the buffer starting as zeros
MomentumUpdate(buf, d_p) == (MomentumNum * buf) \div MomentumDen + d_p

\* p.data.add_(-group['lr'], d_p)
SgdUpdate(p, lr, d_p) == p - lr * d_p

NoInputs == [r \in Procs |-> 0]

\* process r takes its result of the collective; the record of the
\* contributions is dropped with the last result taken
TakeResponse(r) ==
  /\ hvd_response' = [hvd_response EXCEPT ![r] = NoResponse]
  /\ hvd_last_inputs' =
       IF \A q \in Procs \ {r} : hvd_response[q] = NoResponse
         THEN NoInputs ELSE hvd_last_inputs

\* ------------------------------------------------------------------ main()
\* a process before main() has run, and the libraries before any call
Fresh ==
  /\ randperm_of = [s \in Seeds |-> Unset]
  /\ torch_rng = [r \in Procs |-> 0]
  /\ error = [r \in Procs |-> None]
  /\ sampler_epoch = [r \in Procs |-> 0]
  /\ indices = [r \in Procs |-> << >>]
  /\ i = [r \in Procs |-> 0]
  /\ grad = [r \in Procs |-> 0]
  /\ momentum_buf = [r \in Procs |-> 0]
  /\ hvd_request = [r \in Procs |-> NoRequest]
  /\ hvd_response = [r \in Procs |-> NoResponse]
  /\ hvd_last_inputs = NoInputs
  /\ opt_steps = [r \in Procs |-> 0]
  /\ seen = [r \in Procs |-> [e \in Seeds |-> [outs |-> {}, n |-> 0]]]
  /\ batches = [r \in Procs |-> << >>]
  /\ batch_grad = [r \in Procs |-> 0]
  /\ ops = [r \in Procs |-> << >>]
  /\ log_lines = [r \in Procs |-> {}]

Init ==
  /\ DISTRIBUTED \in {_str_to_bool(v) : v \in EnvValues}
  /\ size \in 1..MaxReplicas
  /\ (~DISTRIBUTED => size = 1)
  /\ total_samples \in 1..MaxSamples
  /\ batch_size \in 1..MaxBatch
  /\ total_epochs \in 1..MaxEpochs
  /\ grad_values = Grads
  /\ Fresh
  /\ pc = [r \in Procs |-> "Idle"]
  /\ hvd_inited = [r \in Procs |-> FALSE]
  /\ epoch = [r \in Procs |-> 0]
  /\ param = [r \in Procs |-> 0]
  /\ bcast_calls = [r \in Procs |-> 0]

\* the exception e ends main() on process r
Raise(r, e) ==
  /\ pc' = [pc EXCEPT ![r] = "Failed"]
  /\ error' = [error EXCEPT ![r] = e]

\* lines 143-150: hvd.init() and the seeding, only when distributed
HvdInit(r) ==
  /\ pc[r] = "Idle"
  /\ hvd_inited' = [hvd_inited EXCEPT ![r] = DISTRIBUTED]
  /\ torch_rng' = [torch_rng EXCEPT ![r] = 0]
  /\ pc' = [pc EXCEPT ![r] = "Setup"]
  /\ UNCHANGED <<config, trace, randperm_of, error, sampler_epoch, indices, epoch, i,
                 param, grad, momentum_buf, hvd_request, hvd_response,
                 hvd_last_inputs, bcast_calls, opt_steps, seen>>

\* main() going from the model straight to the main loop, without broadcast
AfterModelLoaded_NoBroadcast == "EpochLoop"

\* where main() stands once the model is built and moved to the device
AfterModelLoaded == "ModelLoaded"

\* lines 152-182: dataset, sampler, loader, model (with the parameters its
\* constructor draws). The name hvd is bound only
\* by the import under "if _DISTRIBUTED:", so hvd.size() raises NameError
\* otherwise
Setup(r) ==
  /\ pc[r] = "Setup"
  /\ IF ~DISTRIBUTED
       THEN /\ Raise(r, "NameError")
            /\ UNCHANGED <<sampler_epoch, param>>
       ELSE /\ sampler_epoch' = [sampler_epoch EXCEPT ![r] = 0]
            /\ \E p \in ParamInits : param' = [param EXCEPT ![r] = p]
            /\ pc' = [pc EXCEPT ![r] = AfterModelLoaded]
            /\ UNCHANGED error
  /\ UNCHANGED <<config, trace, randperm_of, torch_rng, hvd_inited, indices, epoch, i,
                 grad, momentum_buf, hvd_request, hvd_response,
                 hvd_last_inputs, bcast_calls, opt_steps, seen>>

\* line 185: hvd.broadcast_parameters(model.state_dict(), root_rank=0) is
\* entered; the call blocks until the collective has been carried out
BroadcastCall(r) ==
  /\ pc[r] = "ModelLoaded"
  /\ hvd_request' = [hvd_request EXCEPT ![r] = Request("broadcast", param[r])]
  /\ pc' = [pc EXCEPT ![r] = "InBroadcast"]
  /\ UNCHANGED <<config, trace, randperm_of, torch_rng, error, hvd_inited,
                 sampler_epoch, indices, epoch, i, param, grad, momentum_buf,
                 hvd_response, hvd_last_inputs, bcast_calls, opt_steps, seen>>

\* a coordinator that carries a collective out for the processes that have
\* submitted, without waiting for the others
HvdCoordinate_NoBarrier ==
  LET ready == {r \in Procs : hvd_request[r] # NoRequest /\ hvd_response[r] = NoResponse}
      inputs == [r \in ready |-> hvd_request[r].val]
  IN /\ ready # {}
     /\ hvd_response' =
          [r \in Procs |->
             IF r \notin ready THEN hvd_response[r]
             ELSE IF hvd_request[r].op = "broadcast" THEN Response(inputs[r])
             ELSE Response(SumOver(inputs, ready) \div Cardinality(ready))]
     /\ hvd_last_inputs' = [r \in Procs |-> IF r \in ready THEN inputs[r] ELSE 0]
     /\ hvd_request' = [r \in Procs |-> IF r \in ready THEN NoRequest ELSE hvd_request[r]]
     /\ UNCHANGED <<config, trace, randperm_of, torch_rng, pc, error, hvd_inited,
                    sampler_epoch, indices, epoch, i, param, grad, momentum_buf,
                    bcast_calls, opt_steps, seen>>

\* Horovod's background coordinator: a collective is carried out once every
\* process of the run has submitted its tensor for it
HvdCoordinate ==
  /\ \A r \in Procs : hvd_request[r] # NoRequest
  /\ \A r \in Procs : hvd_response[r] = NoResponse
  /\ \A r \in Procs : hvd_request[r].op = hvd_request[root_rank].op
  /\ LET inputs == [r \in Procs |-> hvd_request[r].val]
         result == IF hvd_request[root_rank].op = "broadcast"
                     THEN BroadcastResult(inputs)
                     ELSE AllreduceResult(inputs)
     IN /\ hvd_response' = [r \in Procs |-> Response(result)]
        /\ hvd_last_inputs' = inputs
  /\ hvd_request' = [r \in Procs |-> NoRequest]
  /\ UNCHANGED <<config, trace, randperm_of, torch_rng, pc, error, hvd_inited,
                 sampler_epoch, indices, epoch, i, param, grad, momentum_buf,
                 bcast_calls, opt_steps, seen>>

\* line 185 returns; lines 188-193 build the optimizer (empty momentum
\* buffer) and line 197 enters the main loop
BroadcastReturn(r) ==
  /\ pc[r] = "InBroadcast"
  /\ hvd_response[r] # NoResponse
  /\ param' = [param EXCEPT ![r] = hvd_response[r][1]]
  /\ TakeResponse(r)
  /\ bcast_calls' = [bcast_calls EXCEPT ![r] = @ + 1]
  /\ momentum_buf' = [momentum_buf EXCEPT ![r] = 0]
  /\ epoch' = [epoch EXCEPT ![r] = 0]
  /\ pc' = [pc EXCEPT ![r] = "EpochLoop"]
  /\ UNCHANGED <<config, trace, randperm_of, torch_rng, error, hvd_inited,
                 sampler_epoch, indices, i, grad, hvd_request, opt_steps,
                 seen>>

\* the main loop without train_sampler.set_epoch(epoch)
EpochLoop_NoSetEpoch(r) ==
  /\ pc[r] = "EpochLoop"
  /\ pc' = [pc EXCEPT ![r] = IF epoch[r] < total_epochs THEN "EpochRunning"
                                                        ELSE "Completed"]
  /\ UNCHANGED <<config, trace, randperm_of, torch_rng, error, hvd_inited, indices,
                 epoch, i, param, grad, momentum_buf, hvd_request,
                 hvd_response, hvd_last_inputs, bcast_calls, opt_steps, seen,
                 sampler_epoch>>

\* lines 197-200: for epoch in range(_EPOCHS): model.train();
\* train_sampler.set_epoch(epoch); the loop ends when the range is exhausted
EpochLoop(r) ==
  /\ pc[r] = "EpochLoop"
  /\ IF epoch[r] < total_epochs
       THEN /\ sampler_epoch' = [sampler_epoch EXCEPT ![r] = epoch[r]]
            /\ pc' = [pc EXCEPT ![r] = "EpochRunning"]
       ELSE /\ pc' = [pc EXCEPT ![r] = "Completed"]
            /\ UNCHANGED sampler_epoch
  /\ UNCHANGED <<config, trace, randperm_of, torch_rng, error, hvd_inited, indices,
                 epoch, i, param, grad, momentum_buf, hvd_request,
                 hvd_response, hvd_last_inputs, bcast_calls, opt_steps, seen>>

\* what iterating the sampler gives process r, as far as the loop over the
\* loader depends on it: whether the asserts pass and how many positions
\* come; neither depends on the permutation drawn
IterOutcome(r) ==
  SamplerIter([k \in 1..total_samples |-> k - 1], size, r)

\* lines 201, 120-124: train() starts to enumerate the loader; the loader's
\* iterator draws its base seed from the global generator and iterates the
\* sampler
TrainBegin(r) ==
  /\ pc[r] = "EpochRunning"
  /\ torch_rng' = [torch_rng EXCEPT ![r] = (@ + 1) % (MaxRng + 1)]
  /\ IF ~IterOutcome(r).ok
       THEN /\ Raise(r, "AssertionError")
            /\ UNCHANGED i
       ELSE /\ i' = [i EXCEPT ![r] = 0]
            /\ pc' = [pc EXCEPT ![r] = "Loading"]
            /\ UNCHANGED error
  /\ UNCHANGED <<config, trace, randperm_of, hvd_inited, sampler_epoch, indices, epoch,
                 param, grad, momentum_buf, hvd_request, hvd_response,
                 hvd_last_inputs, bcast_calls, opt_steps, seen>>

\* the step without optimizer.zero_grad()
StepOps_NoZeroGrad == <<"forward", "loss", "backward">>

\* lines 128-134: what a step does before optimizer.step(), in the order of
\* the code
StepOps == <<"zero_grad", "forward", "loss", "backward">>

\* .grad after one operation: zero_grad() zeroes it, loss.backward() adds the
\* gradient g of the batch's loss to it, the others leave it
OpOnGrad(op, acc, g) ==
  IF op = "zero_grad" THEN 0
  ELSE IF op = "backward" THEN acc + g
  ELSE acc

\* .grad after the operations of seq, in order
RECURSIVE GradAfter(_, _, _)
GradAfter(seq, acc, g) ==
  IF seq = << >> THEN acc
  ELSE GradAfter(Tail(seq), OpOnGrad(Head(seq), acc, g), g)

\* lines 124-134: the next batch is taken, or the loop over the loader ends
\* and with it the epoch; on a batch: zero_grad, forward, loss, backward
NextBatch(r) ==
  /\ pc[r] = "Loading"
  /\ IF i[r] < NumBatches(Len(IterOutcome(r).list), batch_size)
       THEN /\ \E g \in grad_values :
                 /\ grad' = [grad EXCEPT ![r] = GradAfter(StepOps, @, g)]
                 /\ batch_grad' = [batch_grad EXCEPT ![r] = g]
            /\ ops' = [ops EXCEPT ![r] = StepOps]
            /\ pc' = [pc EXCEPT ![r] = "StepRunning"]
            /\ UNCHANGED epoch
       ELSE /\ epoch' = [epoch EXCEPT ![r] = @ + 1]
            /\ pc' = [pc EXCEPT ![r] = "EpochLoop"]
            /\ UNCHANGED <<grad, batch_grad, ops>>
  /\ UNCHANGED <<config, batches, log_lines, randperm_of, torch_rng, error, hvd_inited,
                 sampler_epoch, indices, i, param, momentum_buf, hvd_request,
                 hvd_response, hvd_last_inputs, bcast_calls, opt_steps, seen>>

\* line 135: optimizer.step() of the DistributedOptimizer submits the
\* gradient to the all-reduce and waits for it
OptimizerStep(r) ==
  /\ pc[r] = "StepRunning"
  /\ hvd_request' = [hvd_request EXCEPT ![r] = Request("allreduce", grad[r])]
  /\ ops' = [ops EXCEPT ![r] = Append(@, "step")]
  /\ pc' = [pc EXCEPT ![r] = "InAllreduce"]
  /\ UNCHANGED <<config, batches, batch_grad, log_lines, randperm_of, torch_rng, error, hvd_inited,
                 sampler_epoch, indices, epoch, i, param, grad, momentum_buf,
                 hvd_response, hvd_last_inputs, bcast_calls, opt_steps, seen>>

\* the optimizer applying the process's own gradient
AppliedGradient_Local(r) == grad[r]

\* the gradient the wrapped SGD applies: the all-reduced one
AppliedGradient(r) == hvd_response[r][1]

\* the progress line kept to the master
LogsProgress_MasterOnly(r) == _is_master(DISTRIBUTED, r) /\ i[r] % LogEvery = 0

\* line 136: if i % 100 == 0
LogsProgress(r) == i[r] % LogEvery = 0

\* lines 137-138: the line logged, with the number of optimizer steps the
\* process has completed when it logs
LogLine(r, steps_done) == [epoch |-> epoch[r], i |-> i[r], steps_done |-> steps_done]

\* line 135 continues: the averaged gradient replaces .grad, SGD with
\* momentum updates the parameters; lines 136-139 log; the loop advances
AllreduceReturn(r) ==
  /\ pc[r] = "InAllreduce"
  /\ hvd_response[r] # NoResponse
  /\ LET d_p == AppliedGradient(r)
         buf == MomentumUpdate(momentum_buf[r], d_p)
     IN /\ grad' = [grad EXCEPT ![r] = d_p]
        /\ momentum_buf' = [momentum_buf EXCEPT ![r] = buf]
        /\ param' = [param EXCEPT ![r] = SgdUpdate(@, OptimizerLr(size), buf)]
  /\ TakeResponse(r)
  /\ opt_steps' = [opt_steps EXCEPT ![r] = @ + 1]
  /\ log_lines' =
       IF LogsProgress(r)
         THEN [log_lines EXCEPT ![r] = @ \cup {LogLine(r, opt_steps'[r])}]
         ELSE log_lines
  /\ ops' = [ops EXCEPT ![r] = << >>]
  /\ batch_grad' = [batch_grad EXCEPT ![r] = 0]
  /\ i' = [i EXCEPT ![r] = @ + 1]
  /\ pc' = [pc EXCEPT ![r] = "Loading"]
  /\ UNCHANGED <<config, batches, randperm_of, torch_rng, error, hvd_inited,
                 sampler_epoch, indices, epoch, hvd_request, bcast_calls,
                 seen>>

Next ==
  \/ \E r \in Procs : HvdInit(r)
  \/ \E r \in Procs : Setup(r)
  \/ \E r \in Procs : BroadcastCall(r)
  \/ HvdCoordinate
  \/ \E r \in Procs : BroadcastReturn(r)
  \/ \E r \in Procs : EpochLoop(r)
  \/ \E r \in Procs : TrainBegin(r)
  \/ \E r \in Procs : NextBatch(r)
  \/ \E r \in Procs : OptimizerStep(r)
  \/ \E r \in Procs : AllreduceReturn(r)

Spec == Init /\ [][Next]_vars

\* ------------------------------------------------------ the fault-free run
\* a distributed run about to start, of up to MaxListReplicas processes
FairInit ==
  /\ DISTRIBUTED = TRUE
  /\ size \in 1..MaxListReplicas
  /\ total_samples \in 1..MaxSamples
  /\ batch_size \in 1..MaxBatch
  /\ total_epochs \in 1..MaxEpochs
  /\ grad_values = Grads
  /\ Fresh
  /\ pc = [r \in Procs |-> "Idle"]
  /\ hvd_inited = [r \in Procs |-> FALSE]
  /\ epoch = [r \in Procs |-> 0]
  /\ param = [r \in Procs |-> 0]
  /\ bcast_calls = [r \in Procs |-> 0]

\* the steps of main() on process r
ProcNext(r) ==
  /\ r \in Procs
  /\ \/ HvdInit(r)
     \/ Setup(r)
     \/ BroadcastCall(r)
     \/ BroadcastReturn(r)
     \/ EpochLoop(r)
     \/ TrainBegin(r)
     \/ NextBatch(r)
     \/ OptimizerStep(r)
     \/ AllreduceReturn(r)

\* every process is an operating-system process of its own and keeps
\* running while it can; Horovod's background thread keeps serving
Fairness ==
  /\ \A r \in 0..(MaxListReplicas - 1) : WF_vars(ProcNext(r))
  /\ WF_vars(HvdCoordinate)

FairSpec == FairInit /\ [][Next]_vars /\ Fairness

\* ------------------------------------------------------------ long epochs
\* a distributed run at the head of the main loop, on a dataset that gives
\* every process MaxLogBatches batches of one sample per epoch; the
\* gradients are all zero, the parameters stay as broadcast
LogInit ==
  /\ DISTRIBUTED = TRUE
  /\ size \in 1..MaxReplicas
  /\ total_samples = size * MaxLogBatches
  /\ batch_size = 1
  /\ total_epochs \in 1..MaxEpochs
  /\ grad_values = {0}
  /\ Fresh
  /\ pc = [r \in Procs |-> "EpochLoop"]
  /\ hvd_inited = [r \in Procs |-> TRUE]
  /\ epoch = [r \in Procs |-> 0]
  /\ param = [r \in Procs |-> 0]
  /\ bcast_calls = [r \in Procs |-> 1]

LogNext ==
  \/ \E r \in Procs : EpochLoop(r)
  \/ \E r \in Procs : TrainBegin(r)
  \/ \E r \in Procs : NextBatch(r)
  \/ \E r \in Procs : OptimizerStep(r)
  \/ HvdCoordinate
  \/ \E r \in Procs : AllreduceReturn(r)

LogSpec == LogInit /\ [][LogNext]_vars

\* ------------------------------------------------- failures inside a step
\* the loop catching the exception of a bad batch and going on to the next
DecodeFail_Skip(r) ==
  /\ pc[r] = "Loading"
  /\ i[r] < NumBatches(Len(IterOutcome(r).list), batch_size)
  /\ error' = [error EXCEPT ![r] = "IOError"]
  /\ i' = [i EXCEPT ![r] = @ + 1]
  /\ UNCHANGED <<config, trace, randperm_of, torch_rng, pc, hvd_inited,
                 sampler_epoch, indices, epoch, param, grad, momentum_buf,
                 hvd_request, hvd_response, hvd_last_inputs, bcast_calls,
                 opt_steps, seen>>

\* line 124 on a batch with a sample that cannot be opened or decoded:
\* ImageNet.__getitem__ (lines 95-104) raises, the loader passes the exception
\* on to the loop, and neither train() nor main() catches anything
DecodeFail(r) ==
  /\ pc[r] = "Loading"
  /\ i[r] < NumBatches(Len(IterOutcome(r).list), batch_size)
  /\ Raise(r, "IOError")
  /\ UNCHANGED <<config, trace, randperm_of, torch_rng, hvd_inited,
                 sampler_epoch, indices, epoch, i, param, grad, momentum_buf,
                 hvd_request, hvd_response, hvd_last_inputs, bcast_calls,
                 opt_steps, seen>>

\* lines 185, 135: the collective raises on a process that waits in it; the
\* process leaves main() and the tensor it had submitted goes with it
CollectiveFail(r) ==
  /\ pc[r] \in {"InBroadcast", "InAllreduce"}
  /\ hvd_response[r] = NoResponse
  /\ hvd_request' = [hvd_request EXCEPT ![r] = NoRequest]
  /\ Raise(r, "HorovodError")
  /\ UNCHANGED <<config, trace, randperm_of, torch_rng, hvd_inited,
                 sampler_epoch, indices, epoch, i, param, grad, momentum_buf,
                 hvd_response, hvd_last_inputs, bcast_calls, opt_steps, seen>>

FaultNext ==
  \/ Next
  \/ \E r \in Procs : DecodeFail(r)
  \/ \E r \in Procs : CollectiveFail(r)

\* the run in which samples may be unreadable and collectives may fail
FaultSpec == Init /\ [][FaultNext]_vars

\* ------------------------------------------- the lists of positions, per epoch
\* torch.randperm(n, generator=g) with g seeded: a permutation that is the
\* same whenever, and on whichever process, the seed is the same
RandPerms(seed) ==
  IF randperm_of[seed] = Unset THEN Perms(total_samples) ELSE {randperm_of[seed]}

\* DistributedSampler.__iter__ of process r: the generator is seeded, the
\* permutation perm drawn and the rank's part cut out
SamplerIterate(r, perm) ==
  /\ perm \in RandPerms(GeneratorSeed(r))
  /\ randperm_of' = [randperm_of EXCEPT ![GeneratorSeed(r)] = perm]
  /\ seen' = [seen EXCEPT ![r][sampler_epoch[r]] =
                [outs |-> @.outs \cup {SamplerIter(perm, size, r)},
                 n |-> Min(@.n + 1, 2)]]

\* lines 201, 120-124 as TrainBegin, with the list the sampler yields
TrainBeginLists(r) ==
  /\ pc[r] = "EpochRunning"
  /\ torch_rng' = [torch_rng EXCEPT ![r] = (@ + 1) % (MaxRng + 1)]
  /\ \E perm \in RandPerms(GeneratorSeed(r)) :
       /\ SamplerIterate(r, perm)
       /\ IF ~SamplerIter(perm, size, r).ok
            THEN /\ Raise(r, "AssertionError")
                 /\ UNCHANGED <<indices, i>>
            ELSE /\ indices' = [indices EXCEPT ![r] = SamplerIter(perm, size, r).list]
                 /\ i' = [i EXCEPT ![r] = 0]
                 /\ pc' = [pc EXCEPT ![r] = "Loading"]
                 /\ UNCHANGED error
  /\ batches' = [batches EXCEPT ![r] = << >>]
  /\ UNCHANGED <<config, batch_grad, ops, log_lines, hvd_inited, sampler_epoch,
                 epoch, param, grad,
                 momentum_buf, hvd_request, hvd_response, hvd_last_inputs,
                 bcast_calls, opt_steps>>

\* every process of a distributed run at the head of the main loop, in the
\* same epoch; the optimizer's fields are not followed here
ShardInit ==
  /\ DISTRIBUTED = TRUE
  /\ size \in 1..MaxListReplicas
  /\ total_samples \in 1..MaxListSamples
  /\ batch_size \in 1..MaxBatch
  /\ total_epochs \in 1..MaxEpochs
  /\ grad_values = Grads
  /\ Fresh
  /\ pc = [r \in Procs |-> "EpochLoop"]
  /\ hvd_inited = [r \in Procs |-> TRUE]
  /\ \E e \in 0..(total_epochs - 1) : epoch = [r \in Procs |-> e]
  /\ param = [r \in Procs |-> 0]
  /\ bcast_calls = [r \in Procs |-> 1]

ShardNext ==
  \/ \E r \in Procs : EpochLoop(r)
  \/ \E r \in Procs : TrainBeginLists(r)

ShardSpec == ShardInit /\ [][ShardNext]_vars

\* ------------------------------------------ the batches of one epoch, as lists
\* the batch sampler with drop_last=True: a last batch that is not full is
\* not delivered
RECURSIVE BatchSamplerIter_DropLast(_, _, _)
BatchSamplerIter_DropLast(list, batch, bs) ==
  IF list = << >> THEN << >>
  ELSE LET b == Append(batch, Head(list))
       IN IF Len(b) = bs
            THEN <<b>> \o BatchSamplerIter_DropLast(Tail(list), << >>, bs)
            ELSE BatchSamplerIter_DropLast(Tail(list), b, bs)

\* BatchSampler.__iter__ of the DataLoader of lines 172-173 (drop_last is
\* False by default): the positions of the sampler are appended to a batch
\* one by one, a batch is yielded when it has batch_size of them, and what is
\* left at the end is yielded if it is not empty
RECURSIVE BatchSamplerIter(_, _, _)
BatchSamplerIter(list, batch, bs) ==
  IF list = << >> THEN (IF Len(batch) > 0 THEN <<batch>> ELSE << >>)
  ELSE LET b == Append(batch, Head(list))
       IN IF Len(b) = bs
            THEN <<b>> \o BatchSamplerIter(Tail(list), << >>, bs)
            ELSE BatchSamplerIter(Tail(list), b, bs)

\* line 124 as the loader sees it: the next batch of the epoch is delivered
\* (one worker, so in the order of the batch sampler) and enumerate advances,
\* or the loader is exhausted and the epoch ends; the step made on the batch
\* (lines 125-139) is not followed here
NextBatchLists(r) ==
  /\ pc[r] = "Loading"
  /\ LET all == BatchSamplerIter(indices[r], << >>, batch_size)
     IN IF i[r] < Len(all)
          THEN /\ batches' = [batches EXCEPT ![r] = Append(@, all[i[r] + 1])]
               /\ i' = [i EXCEPT ![r] = @ + 1]
               /\ UNCHANGED <<pc, epoch>>
          ELSE /\ epoch' = [epoch EXCEPT ![r] = @ + 1]
               /\ pc' = [pc EXCEPT ![r] = "EpochLoop"]
               /\ UNCHANGED <<batches, i>>
  /\ UNCHANGED <<config, batch_grad, ops, log_lines, randperm_of, torch_rng,
                 error, hvd_inited, sampler_epoch, indices, param, grad,
                 momentum_buf, hvd_request, hvd_response, hvd_last_inputs,
                 bcast_calls, opt_steps, seen>>

\* one process of a distributed run about to call train() for an epoch
\* (line 201), set_epoch(epoch) done
LoaderInit ==
  /\ DISTRIBUTED = TRUE
  /\ size \in 1..MaxListReplicas
  /\ total_samples \in 1..MaxListSamples
  /\ batch_size \in 1..MaxBatch
  /\ total_epochs \in 1..MaxEpochs
  /\ grad_values = Grads
  /\ Fresh
  /\ \E rank \in Procs :
       pc = [r \in Procs |-> IF r = rank THEN "EpochRunning" ELSE "Elsewhere"]
  /\ hvd_inited = [r \in Procs |-> TRUE]
  /\ \E e \in 0..(total_epochs - 1) :
       /\ epoch = [r \in Procs |-> e]
       /\ sampler_epoch = [r \in Procs |-> e]
  /\ param = [r \in Procs |-> 0]
  /\ bcast_calls = [r \in Procs |-> 1]

LoaderNext ==
  \/ \E r \in Procs : TrainBeginLists(r)
  \/ \E r \in Procs : NextBatchLists(r)

LoaderSpec == LoaderInit /\ [][LoaderNext]_vars

\* --------------------------------------- one sampler under any order of calls
\* DistributedSampler.set_epoch
SetEpoch(r, e) ==
  /\ pc[r] = "Sampler"
  /\ sampler_epoch' = [sampler_epoch EXCEPT ![r] = e]
  /\ UNCHANGED <<config, trace, randperm_of, torch_rng, pc, error, hvd_inited, indices,
                 epoch, i, param, grad, momentum_buf, hvd_request,
                 hvd_response, hvd_last_inputs, bcast_calls, opt_steps, seen>>

\* iter(train_sampler)
SamplerCall(r) ==
  /\ pc[r] = "Sampler"
  /\ \E perm \in RandPerms(GeneratorSeed(r)) :
       /\ SamplerIterate(r, perm)
       /\ indices' = [indices EXCEPT ![r] = SamplerIter(perm, size, r).list]
       /\ error' = [error EXCEPT ![r] =
                     IF SamplerIter(perm, size, r).ok THEN None ELSE "AssertionError"]
  /\ UNCHANGED <<config, trace, torch_rng, pc, hvd_inited, sampler_epoch, epoch, i,
                 param, grad, momentum_buf, hvd_request, hvd_response,
                 hvd_last_inputs, bcast_calls, opt_steps>>

\* any other draw from torch's global generator in the process
GlobalDraw(r) ==
  /\ pc[r] = "Sampler"
  /\ torch_rng' = [torch_rng EXCEPT ![r] = (@ + 1) % (MaxRng + 1)]
  /\ UNCHANGED <<config, trace, randperm_of, pc, error, hvd_inited, sampler_epoch,
                 indices, epoch, i, param, grad, momentum_buf, hvd_request,
                 hvd_response, hvd_last_inputs, bcast_calls, opt_steps, seen>>

\* one process of a distributed run, its sampler just built (lines 168-169)
SamplerInit ==
  /\ DISTRIBUTED = TRUE
  /\ size \in 1..MaxListReplicas
  /\ total_samples \in 1..MaxSamplerSamples
  /\ batch_size = MaxBatch
  /\ total_epochs = MaxEpochs
  /\ grad_values = Grads
  /\ Fresh
  /\ \E rank \in Procs :
       pc = [r \in Procs |-> IF r = rank THEN "Sampler" ELSE "Elsewhere"]
  /\ hvd_inited = [r \in Procs |-> TRUE]
  /\ epoch = [r \in Procs |-> 0]
  /\ param = [r \in Procs |-> 0]
  /\ bcast_calls = [r \in Procs |-> 0]

SamplerNext ==
  \/ \E r \in Procs, e \in Seeds : SetEpoch(r, e)
  \/ \E r \in Procs : SamplerCall(r)
  \/ \E r \in Procs : GlobalDraw(r)

SamplerSpec == SamplerInit /\ [][SamplerNext]_vars

\* ======================================================= properties checked

\* every process of the run has iterated its sampler for the epoch
AllIterated == \A r \in Procs : pc[r] \in {"Loading", "Failed"}

\* process r holds the list its sampler yielded for the epoch
HoldsList(r) == pc[r] = "Loading"

\* ceil(n / w): the least l with l * w >= n
CeilDiv(n, w) == CHOOSE l \in 0..n : l * w >= n /\ (l - 1) * w < n

\* C1: for every world size, dataset size and epoch, once every rank has
\* iterated its sampler, every rank holds a list and the positions of the
\* lists together are exactly 0 .. total_samples - 1.
C1_ShardsCoverAllPositions ==
  AllIterated =>
    /\ \A r \in Procs : HoldsList(r)
    /\ UNION {Range(indices[r]) : r \in Procs} = 0..(total_samples - 1)

\* slot of the padded permutation that entry k of rank r's list comes from
SlotOf(r, k) == CeilDiv(total_samples, size) * r + k

\* entries (rank, k) of the lists held
Entries == {e \in Procs \X (1..MaxListSamples) : HoldsList(e[1]) /\ e[2] <= Len(indices[e[1]])}

\* positions found at more than one entry of the lists held
Duplicated ==
  {indices[e[1]][e[2]] : e \in
     {e \in Entries : \E f \in Entries : f # e /\ indices[f[1]][f[2]] = indices[e[1]][e[2]]}}

\* C2: the lists of an epoch are cut from disjoint slots of the padded
\* permutation: entry k of rank r is slot r * shard_len + k; a position found
\* at two entries (of two ranks or of one) has one of them in a slot added by
\* the padding; at most shard_len * world_size - total_samples positions are
\* found twice; none is when world_size divides total_samples.
C2_DisjointSlots ==
  /\ \A e \in Entries :
       /\ randperm_of[sampler_epoch[e[1]]] # Unset
       /\ SlotOf(e[1], e[2]) <= Len(Padded(randperm_of[sampler_epoch[e[1]]], size))
       /\ indices[e[1]][e[2]] =
            Padded(randperm_of[sampler_epoch[e[1]]], size)[SlotOf(e[1], e[2])]
  /\ \A e, f \in Entries :
       (e # f /\ indices[e[1]][e[2]] = indices[f[1]][f[2]]) =>
         /\ SlotOf(e[1], e[2]) # SlotOf(f[1], f[2])
         /\ Max(SlotOf(e[1], e[2]), SlotOf(f[1], f[2])) > total_samples
  /\ Cardinality(Duplicated) <= CeilDiv(total_samples, size) * size - total_samples
  /\ total_samples % size = 0 => Duplicated = {}

\* a padded epoch in which every rank holds its list and a position is
\* found in the lists of two ranks
C2_Witness ==
  /\ size >= 2
  /\ \A r \in Procs : HoldsList(r)
  /\ total_samples % size # 0
  /\ \E e, f \in Entries : e[1] # f[1] /\ indices[e[1]][e[2]] = indices[f[1]][f[2]]

\* C3: for every world size and dataset size (world_size > total_samples
\* included), a rank that iterates its sampler gets a list of
\* ceil(total_samples / world_size) positions, each in 0 .. total_samples - 1.
C3_EqualLengthShards ==
  \A r \in Procs :
    pc[r] \in {"Loading", "Failed"} =>
      /\ HoldsList(r)
      /\ Len(indices[r]) = CeilDiv(total_samples, size)
      /\ Range(indices[r]) \subseteq 0..(total_samples - 1)

\* C4: on one rank the sampler gives one outcome per epoch, whatever was
\* iterated, set or drawn in between.
C4_DeterministicPerEpoch ==
  \A r \in Procs : \A e \in Seeds : Cardinality(seen[r][e].outs) <= 1

\* a rank has iterated one epoch twice and another epoch too, the global
\* generator having moved
C4_Witness ==
  \E r \in Procs : \E e, f \in Seeds :
    /\ e # f
    /\ seen[r][e].n >= 2
    /\ seen[r][f].n >= 1
    /\ torch_rng[r] # 0
    /\ total_samples >= 2
    /\ \E o \in seen[r][e].outs : o.ok

\* process r is in a step: it has a batch and has not yet returned from
\* optimizer.step()
InStep(r) == pc[r] \in {"StepRunning", "InAllreduce"}

\* process r is in the loop of train() over the loader
InTrainLoop(r) == pc[r] \in {"Loading", "StepRunning", "InAllreduce"}

\* C5: on every process broadcast_parameters is called at most once, never
\* again per epoch or per step, and has returned before the process begins
\* its first step; a process that completes has executed it exactly once.
C5_BroadcastOnceBeforeSteps ==
  \A r \in Procs :
    /\ bcast_calls[r] + (IF pc[r] = "InBroadcast" THEN 1 ELSE 0) <= 1
    /\ (InStep(r) \/ opt_steps[r] > 0 \/ pc[r] = "Completed") => bcast_calls[r] = 1

\* a process in the second epoch, past an optimizer step
C5_Witness ==
  \E r \in Procs : epoch[r] >= 1 /\ InStep(r) /\ opt_steps[r] >= 1

\* process q has returned from the all-reduce of step k of epoch e
HasReturned(q, e, k) ==
  \/ epoch[q] > e
  \/ epoch[q] = e /\ InTrainLoop(q) /\ i[q] > k

\* process q has entered the all-reduce of step k of epoch e
HasJoined(q, e, k) ==
  \/ HasReturned(q, e, k)
  \/ epoch[q] = e /\ pc[q] = "InAllreduce" /\ i[q] = k

\* batches of an epoch, on every process
StepsPerEpoch == NumBatches(CeilDiv(total_samples, size), batch_size)

\* C6 as stated: a process is in step k+1 of an epoch only when every process
\* has completed the all-reduce of step k.
C6_LockStepCompleted ==
  \A r, q \in Procs :
    (InStep(r) /\ i[r] >= 1) => HasReturned(q, epoch[r], i[r] - 1)

\* C6 as amended: a process is in step k+1 of an epoch only when every process
\* has entered the all-reduce of step k (and the process itself has returned
\* from it); a process in step k of epoch e has completed exactly the steps
\* before it, e * steps-per-epoch + k of them, so none is skipped or reordered.
C6_LockStepJoined ==
  \A r \in Procs :
    InStep(r) =>
      /\ i[r] < StepsPerEpoch
      /\ opt_steps[r] = epoch[r] * StepsPerEpoch + i[r]
      /\ i[r] >= 1 =>
           /\ HasReturned(r, epoch[r], i[r] - 1)
           /\ \A q \in Procs : HasJoined(q, epoch[r], i[r] - 1)

\* one process is in step k+1 while another is still inside the all-reduce
\* of step k
C6_Witness ==
  \E r, q \in Procs :
    /\ InStep(r) /\ i[r] >= 1
    /\ epoch[q] = epoch[r] /\ pc[q] = "InAllreduce" /\ i[q] = i[r] - 1

\* C7: processes that have returned from broadcast_parameters and have
\* completed the same number of optimizer steps hold the same parameters.
C7_ParameterAgreement ==
  \A r, q \in Procs :
    (bcast_calls[r] = 1 /\ bcast_calls[q] = 1 /\ opt_steps[r] = opt_steps[q])
      => param[r] = param[q]

\* several processes, each past its second optimizer step
C7_Witness ==
  /\ size >= 2
  /\ \A r \in Procs : bcast_calls[r] = 1 /\ opt_steps[r] = 2

\* C8: on a run of two processes, the first optimizer step of a process
\* takes its parameters from param to param - lr * (g1 + g2) / 2, g1 and g2
\* being the gradients the two processes gave to the all-reduce and lr the
\* learning rate of the optimizer.
C8_AveragedGradientStep ==
  [][\A r \in Procs :
       (size = 2 /\ opt_steps[r] = 0 /\ opt_steps'[r] = 1) =>
         2 * (param[r] - param'[r]) =
           OptimizerLr(size) * (hvd_last_inputs[0] + hvd_last_inputs[1])]_vars

\* one of two processes has made its first step, on different gradients
C8_Witness ==
  /\ size = 2
  /\ opt_steps[0] = 1
  /\ opt_steps[1] = 0
  /\ hvd_last_inputs[0] # hvd_last_inputs[1]

\* C9: with DISTRIBUTED false or unset the run is a single process that
\* needs no collective substrate: main() does not fail.
C9_SingleReplicaRuns ==
  ~DISTRIBUTED => \A r \in Procs : pc[r] # "Failed"

\* C10: _is_master is true of rank 0 alone in a distributed run and of the
\* single process otherwise; exactly one process of a run is master.
C10_ExactlyOneMaster ==
  /\ DISTRIBUTED => \A r \in Procs : _is_master(DISTRIBUTED, r) <=> r = 0
  /\ ~DISTRIBUTED => \A r \in Procs : _is_master(DISTRIBUTED, r)
  /\ Cardinality({r \in Procs : _is_master(DISTRIBUTED, r)}) = 1

\* a distributed run of several initialised processes, in training
C10_Witness ==
  /\ DISTRIBUTED
  /\ size >= 2
  /\ \A r \in Procs : hvd_inited[r] /\ InTrainLoop(r)

\* the state of the Training Engine for a process at p in main() with loop
\* variable e: Idle until the broadcast has returned, Initialized at the head
\* of the main loop before the first epoch, EpochRunning at the head of the
\* loop afterwards and while batches are pulled, StepRunning in a step
PhaseOf(p, e) ==
  IF p \in {"Idle", "Setup", "ModelLoaded", "InBroadcast"} THEN "Idle"
  ELSE IF p = "EpochLoop" /\ e = 0 THEN "Initialized"
  ELSE IF p \in {"EpochLoop", "EpochRunning", "Loading"} THEN "EpochRunning"
  ELSE IF p \in {"StepRunning", "InAllreduce"} THEN "StepRunning"
  ELSE p

\* the moves of the Training Engine
PhaseMoves ==
  {<<"Idle", "Initialized">>, <<"Initialized", "EpochRunning">>,
   <<"EpochRunning", "StepRunning">>, <<"StepRunning", "EpochRunning">>,
   <<"EpochRunning", "Completed">>}

\* C11: a process that does not abort moves only along Idle -> Initialized ->
\* {EpochRunning -> StepRunning}* -> Completed; its epoch number starts at 0
\* and only ever grows by one, when the batches of the epoch are exhausted,
\* so the epochs are run in order, each once; while it is at or past the
\* pulling of the epoch's first batch the sampler's cursor is that epoch
\* number; it enters Completed only with total_epochs epochs exhausted, all
\* their steps done.
C11_EpochsInOrder ==
  /\ [](\A r \in Procs :
         /\ PhaseOf(pc[r], epoch[r]) \in {"Idle", "Initialized"} => epoch[r] = 0
         /\ (pc[r] = "EpochRunning" \/ InTrainLoop(r)) =>
              /\ epoch[r] < total_epochs
              /\ sampler_epoch[r] = epoch[r]
         /\ pc[r] = "Completed" =>
              /\ epoch[r] = total_epochs
              /\ opt_steps[r] = total_epochs * StepsPerEpoch)
  /\ [][\A r \in Procs :
         /\ (PhaseOf(pc'[r], epoch'[r]) # PhaseOf(pc[r], epoch[r])
              /\ pc'[r] # "Failed") =>
              <<PhaseOf(pc[r], epoch[r]), PhaseOf(pc'[r], epoch'[r])>> \in PhaseMoves
         /\ epoch'[r] \in {epoch[r], epoch[r] + 1}
         /\ epoch'[r] = epoch[r] + 1 =>
              /\ pc[r] = "Loading"
              /\ i[r] = StepsPerEpoch
              /\ opt_steps[r] = epoch'[r] * StepsPerEpoch
         /\ (pc'[r] = "Completed" /\ pc[r] # "Completed") =>
              /\ pc[r] = "EpochLoop"
              /\ epoch[r] = total_epochs]_vars

\* every process of a run of several has completed two epochs of several
\* steps each
C11_Witness ==
  /\ size >= 2
  /\ total_epochs = 2
  /\ StepsPerEpoch >= 2
  /\ \A r \in Procs : pc[r] = "Completed" /\ opt_steps[r] = 2 * StepsPerEpoch

\* C12: a failure is fatal and never skipped. A process on which an exception
\* was raised is in the failed state; it makes no optimizer step for the batch
\* in hand and none later, and stays failed; no other process completes more
\* optimizer steps than the failed one had completed, nor reaches Completed;
\* processes that have completed the same number of steps hold the same
\* parameters.
C12_FailureIsFatal ==
  /\ [](\A r \in Procs :
         /\ error[r] # None => pc[r] = "Failed"
         /\ pc[r] = "Failed" =>
              \A q \in Procs : opt_steps[q] <= opt_steps[r] /\ pc[q] # "Completed"
         /\ \A q \in Procs :
              (bcast_calls[r] = 1 /\ bcast_calls[q] = 1 /\ opt_steps[r] = opt_steps[q])
                => param[r] = param[q])
  /\ [][\A r \in Procs :
         (pc[r] = "Failed" \/ pc'[r] = "Failed") =>
           /\ pc'[r] = "Failed"
           /\ opt_steps'[r] = opt_steps[r]
           /\ param'[r] = param[r]]_vars

\* one process has failed on a batch after a completed step, a peer that has
\* completed as many waits in the all-reduce of its next step
C12_Witness ==
  \E r, q \in Procs :
    /\ pc[r] = "Failed" /\ error[r] = "IOError" /\ opt_steps[r] >= 1
    /\ pc[q] = "InAllreduce" /\ opt_steps[q] = opt_steps[r]

\* C13: for every world size, dataset size and batch size, under fair
\* scheduling every process of a fault-free distributed run eventually
\* reaches Completed.
C13_EveryReplicaCompletes ==
  <>(\A r \in Procs : pc[r] = "Completed")

\* the lists of seqs, one after the other
RECURSIVE Concat(_)
Concat(seqs) == IF seqs = << >> THEN << >> ELSE Head(seqs) \o Concat(Tail(seqs))

\* C14: on a process in an epoch, the batches delivered so far, put end to
\* end, are the first positions of its sampler's order for the epoch, and
\* there are as many as enumerate has counted; each has between 1 and
\* batch_size positions and each but the last of the epoch has batch_size;
\* when the loader is exhausted they are the whole order, in
\* ceil(shard_len / batch_size) batches.
C14_LoaderKeepsOrder ==
  \A r \in Procs :
    pc[r] \in {"Loading", "EpochLoop"} =>
      LET flat == Concat(batches[r])
          total == CeilDiv(Len(indices[r]), batch_size)
      IN /\ seen[r][sampler_epoch[r]].outs = {Returned(indices[r])}
         /\ Len(indices[r]) = CeilDiv(total_samples, size)
         /\ Len(batches[r]) = i[r]
         /\ flat = Slice(indices[r], 0, Len(flat))
         /\ Len(batches[r]) <= total
         /\ \A k \in 1..Len(batches[r]) :
              /\ Len(batches[r][k]) \in 1..batch_size
              /\ k < total => Len(batches[r][k]) = batch_size
         /\ pc[r] = "EpochLoop" =>
              /\ flat = indices[r]
              /\ Len(batches[r]) = total

\* the loader of a process is exhausted after several batches, the last one
\* not full
C14_Witness ==
  \E r \in Procs :
    /\ pc[r] = "EpochLoop"
    /\ Len(batches[r]) >= 2
    /\ Len(batches[r][Len(batches[r])]) < batch_size

\* C15: a step does zero_grad, forward, loss, backward and then the
\* optimizer's step, in this order; the gradient a process holds after
\* backward, submits to the all-reduce and has reduced is the gradient of the
\* batch in hand alone, whatever earlier steps left in .grad; the step
\* counter of the epoch is the number of batches the process has completed in
\* it, one optimizer step each.
C15_StepOrderAndFreshGradient ==
  \A r \in Procs :
    /\ pc[r] = "StepRunning" =>
         /\ ops[r] = <<"zero_grad", "forward", "loss", "backward">>
         /\ grad[r] = batch_grad[r]
    /\ pc[r] = "InAllreduce" =>
         /\ ops[r] = <<"zero_grad", "forward", "loss", "backward", "step">>
         /\ hvd_request[r] # NoRequest => hvd_request[r].val = batch_grad[r]
         /\ hvd_response[r] # NoResponse => hvd_last_inputs[r] = batch_grad[r]
    /\ ~InStep(r) => ops[r] = << >>
    /\ InTrainLoop(r) =>
         /\ i[r] <= StepsPerEpoch
         /\ opt_steps[r] = epoch[r] * StepsPerEpoch + i[r]

\* a process has submitted the gradient of a batch to the all-reduce while
\* .grad had been left different from zero and from that gradient by the
\* step before
C15_Witness ==
  \E r \in Procs :
    /\ pc[r] = "InAllreduce"
    /\ i[r] >= 1
    /\ hvd_request[r] # NoRequest
    /\ momentum_buf[r] # 0
    /\ hvd_request[r].val # momentum_buf[r]

\* C16: at any moment the progress lines a process has logged are those of
\* the steps it has returned from whose index in the epoch is a multiple of
\* 100 (0 included), one line each, whatever its rank; a line is logged with
\* the optimizer step of its own step completed.
C16_LogsEveryHundredthStep ==
  \A r \in Procs :
    log_lines[r] =
      {[epoch |-> e, i |-> k, steps_done |-> e * StepsPerEpoch + k + 1] :
         <<e, k>> \in {ek \in (0..(total_epochs - 1)) \X (0..(StepsPerEpoch - 1)) :
                         ek[2] % 100 = 0 /\ HasReturned(r, ek[1], ek[2])}}

\* a process that is not the master has logged the line of step 100 of the
\* second epoch and has gone on to a step that logs nothing
C16_Witness ==
  \E r \in Procs :
    /\ ~_is_master(DISTRIBUTED, r)
    /\ epoch[r] = 1
    /\ i[r] > 100
    /\ \E l \in log_lines[r] : l.epoch = 1 /\ l.i = 100

====
